---- MODULE Spec2Model ----
(***************************************************************************)
(* Model of the Yahoo fantasy NBA pipeline:                                *)
(*   - src/src/main.py: main(), the stat-category resolver, the paginated  *)
(*     player fetch and the flattening of player entries;                  *)
(*   - src/nba_analysis_scripts/nba_analysis.py: the numeric normalization *)
(*     of the exported table and the 9-category z-score ranking.           *)
(*   - src/src/api_handler.py: the OAuth session of YahooAPI and its token *)
(*     file.                                                               *)
(* Four specifications share the module: Spec (a run of main),             *)
(* SpecFlatten (the flattening of one entry, as a pure function),          *)
(* SpecRank (the analysis script) and SpecAuth (the session and the token  *)
(* file over several runs).                                                *)
(***************************************************************************)
EXTENDS Integers, Sequences, FiniteSets, TLC

VARIABLES
    pc,                 \* main(): the call it is about to make
    game_id,            \* main.py:109
    league_id,          \* main.py:112
    stat_map,           \* main.py:115
    start,              \* get_all_player_data: the offset of the next request
    all_players_data,   \* get_all_player_data: the accumulated records
    players_data,       \* main.py:118, what get_all_player_data returned
    stopped,            \* which break left the while loop: "no", "empty", "error"
    requests,           \* history: the offsets requested, in order
    served,             \* history: the response to each page request, in order
    cats_resp,          \* history: the response to the settings request
    csv,                \* data/nba_player_stats_2025.csv as main leaves it
    flat_settings,      \* SpecFlatten: the settings response drawn
    flat_entry,         \* SpecFlatten: the player entry drawn
    flat_map,           \* SpecFlatten: get_stat_categories' result
    player_info,        \* SpecFlatten: the record the flattening emits
    fpc,                \* SpecFlatten: position
    rawdf,              \* SpecRank: the table read from the CSV (nba_analysis.py:30)
    df,                 \* SpecRank: df after nba_analysis.py:51-61
    df_fantasy,         \* SpecRank: df_fantasy after nba_analysis.py:193-211
    df_fantasy_ranked,  \* SpecRank: nba_analysis.py:214-217
    exported,           \* SpecRank: nba_fantasy_ranking_top150.csv
    rpc,                \* SpecRank: position in the script
    token_file,         \* SpecAuth: yahoo_token.json (api_handler.py:17)
    session,            \* SpecAuth: YahooAPI.session (api_handler.py:18)
    apc,                \* SpecAuth: "start", "ready" or "failed" (__init__ raised)
    now,                \* SpecAuth: time.time()
    issued,             \* SpecAuth: tokens the server has issued
    events,             \* SpecAuth: history of the last construction and its requests
    last                \* SpecAuth: how the last api.get ended

ingest_vars == <<pc, game_id, league_id, stat_map, start, all_players_data,
                 players_data, stopped, requests, served, cats_resp, csv>>
flat_vars == <<flat_settings, flat_entry, flat_map, player_info, fpc>>
rank_vars == <<rawdf, df, df_fantasy, df_fantasy_ranked, exported, rpc>>
auth_vars == <<token_file, session, apc, now, issued, events, last>>
vars == <<ingest_vars, flat_vars, rank_vars, auth_vars>>

(***************************************************************************)
(* Bounds of the model.                                                    *)
(***************************************************************************)
MaxRequests == 3        \* page requests one run may issue
MaxPageCount == 2       \* player entries a served page may hold
MaxStats == 2           \* stat items of the entry SpecFlatten draws
MaxStatInfo == 2        \* stat categories of the settings SpecFlatten draws

\* get_all_player_data: count = 25, the page size and the offset increment.
count == 25

None == "None"
StatIds == {"5", "12"}                    \* str(stat['stat']['stat_id'])
DisplayNames == {"PTS", "REB"}            \* stat['stat']['display_name']
StatValues == {"10", "0.453"}             \* stat['stat']['value']

\* All sequences over S of length at most n.
SeqUpTo(S, n) == UNION {[1..k -> S] : k \in 0..n}

Range(s) == {s[i] : i \in DOMAIN s}

(***************************************************************************)
(* Dictionaries are functions; EmptyDict is {}.                            *)
(***************************************************************************)
EmptyDict == <<>>

\* d[k] = v
Put(d, k, v) == [x \in (DOMAIN d) \cup {k} |-> IF x = k THEN v ELSE d[x]]

(***************************************************************************)
(* get_stat_categories (main.py:39-51).  A settings response either makes  *)
(* api.get raise, lacks the nested structure, or carries the stat list.    *)
(***************************************************************************)
RECURSIVE DictOfStats(_, _)
\* {str(stat_id): display_name for stat in stat_info}: a later item of the
\* same id replaces an earlier one.
DictOfStats(stat_info, d) ==
    IF stat_info = <<>> THEN d
    ELSE DictOfStats(Tail(stat_info),
                     Put(d, Head(stat_info).stat_id, Head(stat_info).display_name))

GetStatCategories(resp) ==
    IF resp.kind \in {"raise", "absent"} THEN EmptyDict
    ELSE DictOfStats(resp.stats, EmptyDict)

(***************************************************************************)
(* Flattening of one player entry (main.py:69-93).                         *)
(* An entry: present (players_list has the index key), basic (the items of *)
(* player_container[0]), has_second (player_container[1] exists), second   *)
(* (player_container[1]: has_stats, stats).                                *)
(***************************************************************************)
RECURSIVE BasicInfo(_, _)
\* main.py:76-82.  Raises (KeyError) on a name item without 'full'.
BasicInfo(items, info) ==
    IF items = <<>> THEN [raised |-> FALSE, info |-> info]
    ELSE LET item == Head(items) IN
         IF item.key = "name"
         THEN IF "full" \in DOMAIN item.value
              THEN BasicInfo(Tail(items), Put(info, "full_name", item.value.full))
              ELSE [raised |-> TRUE, info |-> info]
         ELSE BasicInfo(Tail(items), Put(info, item.key, item.value.v))

\* A fallback name that loses the id.
StatNameDropUnknown(map, stat_id) ==
    IF stat_id \in DOMAIN map THEN map[stat_id] ELSE "stat_"

\* main.py:90, stat_map.get(stat_id, f"stat_{stat_id}")
StatName(map, stat_id) ==
    IF stat_id \in DOMAIN map THEN map[stat_id] ELSE "stat_" \o stat_id

RECURSIVE StatsInfo(_, _, _)
\* main.py:87-91
StatsInfo(stats_list, map, info) ==
    IF stats_list = <<>> THEN info
    ELSE StatsInfo(Tail(stats_list), map,
                   Put(info, StatName(map, Head(stats_list).stat_id),
                       Head(stats_list).value))

\* main.py:69-91: the record of one entry, or raised.
FlattenEntry(e, map) ==
    IF ~e.present \/ ~e.has_second
    THEN [raised |-> TRUE, info |-> EmptyDict]
    ELSE LET b == BasicInfo(e.basic, EmptyDict) IN
         IF b.raised THEN [raised |-> TRUE, info |-> EmptyDict]
         ELSE IF e.has_stats
              THEN [raised |-> FALSE, info |-> StatsInfo(e.stats, map, b.info)]
              ELSE [raised |-> FALSE, info |-> b.info]

(***************************************************************************)
(* One iteration of the while loop of get_all_player_data (main.py:59-99). *)
(***************************************************************************)
RECURSIVE ProcessPage(_, _, _, _, _)
\* main.py:68-93: the for loop over range(players_list['count']), from
\* index i on; an index without an entry or an entry that raises leaves the
\* loop with what was appended before it.
ProcessPage(players, n, i, acc, map) ==
    IF i > n THEN [raised |-> FALSE, acc |-> acc]
    ELSE IF i \notin DOMAIN players THEN [raised |-> TRUE, acc |-> acc]
    ELSE LET r == FlattenEntry(players[i], map) IN
         IF r.raised THEN [raised |-> TRUE, acc |-> acc]
         ELSE ProcessPage(players, n, i + 1, Append(acc, r.info), map)

\* main.py:64
IsEmptyPage(resp) ==
    resp.kind = "emptylist" \/ (resp.kind = "page" /\ resp.count = 0)

\* An iteration whose except branch drops what was accumulated.
PageStepDropOnError(s, acc, resp, map) ==
    IF resp.kind \in {"raise", "garbled"}
    THEN [start |-> s, acc |-> <<>>, stopped |-> "error"]
    ELSE IF IsEmptyPage(resp)
    THEN [start |-> s, acc |-> acc, stopped |-> "empty"]
    ELSE LET r == ProcessPage(resp.players, resp.count, 1, acc, map) IN
         IF r.raised THEN [start |-> s, acc |-> r.acc, stopped |-> "error"]
         ELSE [start |-> s + count, acc |-> r.acc, stopped |-> "no"]

\* An iteration that advances the offset by the number of entries received.
PageStepAdvanceByReceived(s, acc, resp, map) ==
    IF resp.kind \in {"raise", "garbled"}
    THEN [start |-> s, acc |-> acc, stopped |-> "error"]
    ELSE IF IsEmptyPage(resp)
    THEN [start |-> s, acc |-> acc, stopped |-> "empty"]
    ELSE LET r == ProcessPage(resp.players, resp.count, 1, acc, map) IN
         IF r.raised THEN [start |-> s, acc |-> r.acc, stopped |-> "error"]
         ELSE [start |-> s + resp.count, acc |-> r.acc, stopped |-> "no"]

\* The state after the iteration that got resp at offset s.
PageStep(s, acc, resp, map) ==
    IF resp.kind \in {"raise", "garbled"}
    THEN [start |-> s, acc |-> acc, stopped |-> "error"]
    ELSE IF IsEmptyPage(resp)
    THEN [start |-> s, acc |-> acc, stopped |-> "empty"]
    ELSE LET r == ProcessPage(resp.players, resp.count, 1, acc, map) IN
         IF r.raised THEN [start |-> s, acc |-> r.acc, stopped |-> "error"]
         ELSE [start |-> s + count, acc |-> r.acc, stopped |-> "no"]

(***************************************************************************)
(* The server.  The entry at index i of the page at offset s is the        *)
(* player at position s + i of the league, in one of the shapes below.     *)
(***************************************************************************)
EntryShapes == {"ok", "no_stats", "name_no_full", "no_second", "missing_key"}

PageStats == << [stat_id |-> "5", value |-> "10"],
                [stat_id |-> "12", value |-> "0.453"] >>

MkEntry(shape, key, stats) ==
    [present |-> shape # "missing_key",
     basic |-> << [key |-> "player_key", value |-> [v |-> key]],
                  [key |-> "name",
                   value |-> IF shape = "name_no_full"
                             THEN [first |-> "N" \o key]
                             ELSE [full |-> "N" \o key]] >>,
     has_second |-> shape # "no_second",
     has_stats |-> shape \in {"ok", "name_no_full"},
     stats |-> IF shape \in {"ok", "name_no_full"} THEN stats ELSE <<>>]

WellFormed(e) == e.present /\ e.has_second /\ ~BasicInfo(e.basic, EmptyDict).raised

\* The shapes of the entries of a served page (SpecFlatten draws the entry
\* without a stats section).
PageShapes == EntryShapes \ {"no_stats"}

PageShapeSeqs ==
    UNION {[1..n -> PageShapes] : n \in 0..MaxPageCount}

MkPage(s, shapes) ==
    [kind |-> "page", count |-> Len(shapes),
     players |-> [i \in 1..Len(shapes) |->
                     MkEntry(shapes[i], ToString(s + i - 1), PageStats)]]

Bare(kind) == [kind |-> kind, count |-> 0, players |-> <<>>]

PlayerResponses(s) ==
    {Bare("raise"), Bare("garbled"), Bare("emptylist")}
        \cup {MkPage(s, shapes) : shapes \in PageShapeSeqs}

SettingsResponses ==
    { [kind |-> "raise", stats |-> <<>>],
      [kind |-> "absent", stats |-> <<>>],
      [kind |-> "ok", stats |-> <<>>],
      [kind |-> "ok", stats |-> << [stat_id |-> "5", display_name |-> "PTS"] >>] }

(***************************************************************************)
(* YahooAPI (api_handler.py).  token_file is yahoo_token.json: it exists or *)
(* not, its text is JSON or not, and a JSON text is the sequence of the    *)
(* members json.dump wrote.  A session is the OAuth2Session _get_session   *)
(* returned: its token and the two constructor arguments that decide what  *)
(* a request with an expired token does.                                   *)
(***************************************************************************)
NoFile == [exists |-> FALSE, json |-> FALSE, members |-> <<>>]

NoSession == [kind |-> "none", token |-> EmptyDict,
              auto_refresh_url |-> FALSE, token_updater |-> FALSE]

\* The specifications of main and of the scripts leave the session aside.
AuthOff ==
    /\ token_file = NoFile
    /\ session = NoSession
    /\ apc = "off"
    /\ now = 0
    /\ issued = 0
    /\ events = <<>>
    /\ last = "none"

(***************************************************************************)
(* main (main.py:104-135).                                                 *)
(***************************************************************************)
NoCsv == [written |-> FALSE, rows |-> <<>>]

NoResponse == [kind |-> "none", stats |-> <<>>]

Init ==
    /\ pc = "get_game_id"
    /\ game_id = None
    /\ league_id = None
    /\ stat_map = None
    /\ start = 0
    /\ all_players_data = <<>>
    /\ players_data = None
    /\ stopped = "no"
    /\ requests = <<>>
    /\ served = <<>>
    /\ cats_resp = NoResponse
    /\ csv = NoCsv
    /\ flat_settings = NoResponse
    /\ flat_entry = MkEntry("missing_key", "0", <<>>)
    /\ flat_map = EmptyDict
    /\ player_info = [raised |-> FALSE, info |-> EmptyDict]
    /\ fpc = "off"
    /\ rawdf = <<>>
    /\ df = <<>>
    /\ df_fantasy = <<>>
    /\ df_fantasy_ranked = <<>>
    /\ exported = <<>>
    /\ rpc = "off"
    /\ AuthOff

\* main.py:109-110 with get_game_id (main.py:5-22)
GetGameId ==
    /\ pc = "get_game_id"
    /\ \E r \in {"raise", "match", "nomatch"} :
         /\ game_id' = CASE r = "raise" -> None
                         [] r = "match" -> "428"
                         [] OTHER -> "nba"
         /\ pc' = IF r = "raise" THEN "done" ELSE "get_league_id"
    /\ UNCHANGED <<auth_vars, league_id, stat_map, start, all_players_data, players_data,
                   stopped, requests, served, cats_resp, csv, flat_vars, rank_vars>>

\* main.py:112-113 with get_league_id (main.py:24-37)
GetLeagueId ==
    /\ pc = "get_league_id"
    /\ \E r \in {"raise", "noleague", "ok"} :
         /\ league_id' = IF r = "ok" THEN game_id \o ".l.1" ELSE None
         /\ pc' = IF r = "ok" THEN "get_stat_categories" ELSE "done"
    /\ UNCHANGED <<auth_vars, game_id, stat_map, start, all_players_data, players_data,
                   stopped, requests, served, cats_resp, csv, flat_vars, rank_vars>>

\* A main that does not test the map.
StatMapUsableAlways(m) == TRUE

\* main.py:116, "if not stat_map: return"
StatMapUsable(m) == m # EmptyDict

\* main.py:115-116
GetStatCategoriesCall ==
    /\ pc = "get_stat_categories"
    /\ \E r \in SettingsResponses :
         /\ cats_resp' = r
         /\ stat_map' = GetStatCategories(r)
         /\ pc' = IF StatMapUsable(GetStatCategories(r))
                  THEN "get_all_player_data" ELSE "done"
    /\ UNCHANGED <<auth_vars, game_id, league_id, start, all_players_data, players_data,
                   stopped, requests, served, csv, flat_vars, rank_vars>>

\* main.py:59-102: one iteration of the while loop; the iteration that
\* breaks also returns all_players_data to main (main.py:101-102, 118).
FetchPlayersPage ==
    /\ pc = "get_all_player_data"
    /\ Len(requests) < MaxRequests
    /\ \E resp \in PlayerResponses(start) :
         LET r == PageStep(start, all_players_data, resp, stat_map) IN
         /\ requests' = Append(requests, start)
         /\ served' = Append(served, resp)
         /\ start' = r.start
         /\ all_players_data' = r.acc
         /\ stopped' = r.stopped
         /\ IF r.stopped = "no"
            THEN UNCHANGED <<pc, players_data>>
            ELSE pc' = "save" /\ players_data' = r.acc
    /\ UNCHANGED <<auth_vars, game_id, league_id, stat_map, cats_resp, csv, flat_vars, rank_vars>>

\* main.py:119-135: nothing to save, or the DataFrame is written, or the
\* write raises and is reported.
SaveCsv ==
    /\ pc = "save"
    /\ IF players_data = <<>>
       THEN UNCHANGED csv
       ELSE \E ok \in BOOLEAN :
              csv' = IF ok THEN [written |-> TRUE, rows |-> players_data] ELSE csv
    /\ pc' = "done"
    /\ UNCHANGED <<auth_vars, game_id, league_id, stat_map, start, all_players_data,
                   players_data, stopped, requests, served, cats_resp, flat_vars, rank_vars>>

Next ==
    \/ GetGameId
    \/ GetLeagueId
    \/ GetStatCategoriesCall
    \/ FetchPlayersPage
    \/ SaveCsv

Spec == Init /\ [][Next]_vars

(***************************************************************************)
(* SpecFlatten: get_stat_categories and the flattening of one entry as     *)
(* pure functions of a settings response and an entry drawn from bounded   *)
(* sets.                                                                   *)
(***************************************************************************)
StatInfoItems == [stat_id : StatIds, display_name : DisplayNames]

StatItems == [stat_id : StatIds, value : StatValues]

FlatSettings ==
    { [kind |-> "raise", stats |-> <<>>], [kind |-> "absent", stats |-> <<>>] }
        \cup { [kind |-> "ok", stats |-> st] : st \in SeqUpTo(StatInfoItems, MaxStatInfo) }

FlatEntries ==
    { MkEntry(shape, "0", st) :
        shape \in {"ok", "name_no_full"}, st \in SeqUpTo(StatItems, MaxStats) }
        \cup { MkEntry(shape, "0", <<>>) :
                 shape \in {"no_stats", "no_second", "missing_key"} }

InitFlatten ==
    /\ pc = "done"
    /\ game_id = None
    /\ league_id = None
    /\ stat_map = None
    /\ start = 0
    /\ all_players_data = <<>>
    /\ players_data = None
    /\ stopped = "no"
    /\ requests = <<>>
    /\ served = <<>>
    /\ cats_resp = NoResponse
    /\ csv = NoCsv
    /\ flat_settings \in FlatSettings
    /\ flat_entry \in FlatEntries
    /\ flat_map = EmptyDict
    /\ player_info = [raised |-> FALSE, info |-> EmptyDict]
    /\ fpc = "resolve"
    /\ rawdf = <<>>
    /\ df = <<>>
    /\ df_fantasy = <<>>
    /\ df_fantasy_ranked = <<>>
    /\ exported = <<>>
    /\ rpc = "off"
    /\ AuthOff

\* main.py:39-51 applied to the settings drawn
FlatResolve ==
    /\ fpc = "resolve"
    /\ flat_map' = GetStatCategories(flat_settings)
    /\ fpc' = "flatten"
    /\ UNCHANGED <<auth_vars, ingest_vars, rank_vars, flat_settings, flat_entry, player_info>>

\* main.py:69-91 applied to the entry drawn
FlatFlatten ==
    /\ fpc = "flatten"
    /\ player_info' = FlattenEntry(flat_entry, flat_map)
    /\ fpc' = "done"
    /\ UNCHANGED <<auth_vars, ingest_vars, rank_vars, flat_settings, flat_entry, flat_map>>

NextFlatten ==
    \/ FlatResolve
    \/ FlatFlatten

SpecFlatten == InitFlatten /\ [][NextFlatten]_vars

(***************************************************************************)
(* SpecRank: nba_analysis.py, the normalization of the table and the       *)
(* 9-category ranking.  A raw cell is a number (v, in thousandths: 453 is  *)
(* 0.453 and 5000 is 5), an "X/Y" string (v and w), another string, or     *)
(* missing.  The leaderboard and wing-player sections in between           *)
(* (nba_analysis.py:63-184) only read df, but for a column AST_TO_Ratio    *)
(* that the ranking does not read.                                         *)
(***************************************************************************)
MaxPlayers == 2         \* rows of the table SpecRank draws

\* nba_analysis.py:224, head(150)
TopN == 150

NaNCell == [t |-> "nan", v |-> 0, w |-> 0]
StrCell == [t |-> "str", v |-> 0, w |-> 0]
BadFracCell == [t |-> "badfrac", v |-> 0, w |-> 0]
NumCell(x) == [t |-> "num", v |-> x, w |-> 0]
FracCell(a, b) == [t |-> "frac", v |-> a, w |-> b]

\* A numeric value of a column: NA (NaN, <NA>) or v.
NA == [na |-> TRUE, v |-> 0]
Val(x) == [na |-> FALSE, v |-> x]

\* nba_analysis.py:190
fantasy_categories == <<"PTS", "REB", "AST", "ST", "BLK", "3PTM", "FG%", "FT%", "TO">>

\* nba_analysis.py:55
numeric_cols == <<"3PTM", "AST", "BLK", "FG%", "FT%", "PTS", "REB", "ST", "TO",
                  "FGM", "FGA", "FTM", "FTA">>

PctCols == {"FG%", "FT%"}

\* nba_analysis.py:32-49: (numerator, denominator) of an 'X/Y' string, in
\* thousandths, or (None, None).
parse_fraction(s) ==
    IF s.t = "frac" THEN <<NumCell(s.v), NumCell(s.w)>>
    ELSE <<NaNCell, NaNCell>>

\* pd.to_numeric(..., errors='coerce'), in thousandths
ToNumeric(c) == IF c.t = "num" THEN Val(c.v) ELSE NA

\* n / d rounded to the nearest integer, halves to the even one (d > 0)
RoundHalfEven(n, d) ==
    LET q == n \div d
        r == n % d
    IN  IF 2 * r < d THEN q
        ELSE IF 2 * r > d THEN q + 1
        ELSE IF q % 2 = 0 THEN q ELSE q + 1

\* astype(int) of a float in thousandths: toward zero
TruncToInt(x) == IF x >= 0 THEN x \div 1000 ELSE -((-x) \div 1000)

\* A percentage normalization that defaults a missing value to 0.
NormalizePctDefaultZero(c) ==
    IF ToNumeric(c).na THEN Val(0) ELSE Val(RoundHalfEven(ToNumeric(c).v, 10))

\* nba_analysis.py:57-59: (x * 100).round().astype(Int64)
NormalizePct(c) ==
    IF ToNumeric(c).na THEN NA ELSE Val(RoundHalfEven(ToNumeric(c).v, 10))

\* A count normalization without fillna(0).
NormalizeCountKeepNaN(c) ==
    IF ToNumeric(c).na THEN NA ELSE Val(TruncToInt(ToNumeric(c).v))

\* nba_analysis.py:57, 61: fillna(0).astype(int)
NormalizeCount(c) ==
    IF ToNumeric(c).na THEN Val(0) ELSE Val(TruncToInt(ToNumeric(c).v))

\* nba_analysis.py:51-52: the row with FGM, FGA, FTM, FTA added
WithFractions(cells) ==
    [col \in (DOMAIN cells) \cup {"FGM", "FGA", "FTM", "FTA"} |->
        CASE col = "FGM" -> parse_fraction(cells["FGM/A"])[1]
          [] col = "FGA" -> parse_fraction(cells["FGM/A"])[2]
          [] col = "FTM" -> parse_fraction(cells["FTM/A"])[1]
          [] col = "FTA" -> parse_fraction(cells["FTM/A"])[2]
          [] OTHER -> cells[col]]

\* nba_analysis.py:51-61 on one row
NormalizeRow(row) ==
    LET cells == WithFractions(row.cells) IN
    [key |-> row.key,
     vals |-> [col \in Range(numeric_cols) |->
                  IF col \in PctCols THEN NormalizePct(cells[col])
                  ELSE NormalizeCount(cells[col])]]

(***************************************************************************)
(* Z-scores (nba_analysis.py:195-211).  mean and std are pandas' (std with *)
(* ddof = 1); a z-score and a Fantasy_Score are kept in hundredths, cut    *)
(* toward zero.                                                            *)
(***************************************************************************)
RECURSIVE SumSeq(_)
SumSeq(xs) == IF xs = <<>> THEN 0 ELSE Head(xs) + SumSeq(Tail(xs))

RECURSIVE ISqrtIn(_, _, _)
\* the largest r in lo..hi with r * r <= n
ISqrtIn(n, lo, hi) ==
    IF lo >= hi THEN lo
    ELSE LET mid == (lo + hi + 1) \div 2 IN
         IF mid * mid <= n THEN ISqrtIn(n, mid, hi) ELSE ISqrtIn(n, lo, mid - 1)

ISqrt(n) == ISqrtIn(n, 0, n)

\* nba_analysis.py:197: the category's column with NA filled by 0
FilledColumn(rows, cat) ==
    [i \in 1..Len(rows) |-> IF rows[i].vals[cat].na THEN 0 ELSE rows[i].vals[cat].v]

\* N * sum((x - mean)^2) of a column
SqDev(xs) ==
    Len(xs) * SumSeq([i \in 1..Len(xs) |-> xs[i] * xs[i]]) - SumSeq(xs) * SumSeq(xs)

\* Series.std(): NaN for fewer than two values
StdIsNaN(xs) == Len(xs) < 2

StdIsZero(xs) == ~StdIsNaN(xs) /\ SqDev(xs) = 0

\* nba_analysis.py:199-205: the z-score of row i in column xs
ZScore(xs, i) ==
    IF StdIsZero(xs) THEN Val(0)
    ELSE IF StdIsNaN(xs) THEN NA
    ELSE LET d == Len(xs) * xs[i] - SumSeq(xs)
             m == ISqrt((10000 * d * d * (Len(xs) - 1)) \div (Len(xs) * SqDev(xs)))
         IN  Val(IF d >= 0 THEN m ELSE -m)

\* nba_analysis.py:208
Negated(z) == IF z.na THEN NA ELSE Val(-z.v)

\* nba_analysis.py:211: sum(axis=1) skips NaN
RowSum(zs) ==
    Val(SumSeq([k \in 1..Len(fantasy_categories) |->
                   IF zs[fantasy_categories[k]].na THEN 0
                   ELSE zs[fantasy_categories[k]].v]))

\* nba_analysis.py:193-211
WithZScores(rows) ==
    [i \in 1..Len(rows) |->
        LET zs == [cat \in Range(fantasy_categories) |->
                      IF cat = "TO" THEN Negated(ZScore(FilledColumn(rows, cat), i))
                      ELSE ZScore(FilledColumn(rows, cat), i)]
        IN  [key |-> rows[i].key,
             cats |-> [cat \in Range(fantasy_categories) |->
                          Val(FilledColumn(rows, cat)[i])],
             Z |-> zs,
             Fantasy_Score |-> RowSum(zs)]]

\* nba_analysis.py:214, dropna(subset=['Fantasy_Score']): the indices kept
Scored(rows) == {i \in 1..Len(rows) : ~rows[i].Fantasy_Score.na}

\* nba_analysis.py:214, sort_values(by='Fantasy_Score', ascending=False):
\* order lists the rows by score, highest first; the sort is quicksort,
\* which leaves the order of equal scores open.
SortedByScore(rows, order) ==
    \A a, b \in 1..Len(order) :
        a < b => rows[order[a]].Fantasy_Score.v >= rows[order[b]].Fantasy_Score.v

\* the bijections from 1..Cardinality(S) onto S
OrdersOf(S) ==
    {f \in [1..Cardinality(S) -> S] : \A a, b \in 1..Cardinality(S) : f[a] = f[b] => a = b}

Min(a, b) == IF a <= b THEN a ELSE b

\* The table read from the CSV: player_key and the raw cells.
RawCols == Range(fantasy_categories) \cup {"FGM/A", "FTM/A"}

BaseCell(col) ==
    CASE col \in PctCols -> NumCell(453)
      [] col \in {"FGM/A", "FTM/A"} -> FracCell(10000, 20000)
      [] OTHER -> NumCell(5000)

RawCells(col) ==
    CASE col \in PctCols -> {NaNCell, StrCell, NumCell(445), NumCell(1200)}
      [] col \in {"FGM/A", "FTM/A"} -> {NaNCell, StrCell, BadFracCell, FracCell(-1000, 2000)}
      [] OTHER -> {NaNCell, StrCell, NumCell(-2000), NumCell(12700)}

VariedCols == {"PTS", "FG%", "FGM/A"}

\* The base row, and the rows that differ from it in one cell.
RawRows ==
    {[col \in RawCols |-> BaseCell(col)]}
        \cup UNION {{[col \in RawCols |-> IF col = c THEN x ELSE BaseCell(col)] :
                        x \in RawCells(c)} : c \in VariedCols}

InitRank ==
    /\ pc = "done"
    /\ game_id = None
    /\ league_id = None
    /\ stat_map = None
    /\ start = 0
    /\ all_players_data = <<>>
    /\ players_data = None
    /\ stopped = "no"
    /\ requests = <<>>
    /\ served = <<>>
    /\ cats_resp = NoResponse
    /\ csv = NoCsv
    /\ flat_settings = NoResponse
    /\ flat_entry = MkEntry("missing_key", "0", <<>>)
    /\ flat_map = EmptyDict
    /\ player_info = [raised |-> FALSE, info |-> EmptyDict]
    /\ fpc = "off"
    /\ \E n \in 1..MaxPlayers :
         \E keys \in OrdersOf(1..n) :
           \E cells \in [1..n -> RawRows] :
             rawdf = [i \in 1..n |-> [key |-> keys[i], cells |-> cells[i]]]
    /\ df = <<>>
    /\ df_fantasy = <<>>
    /\ df_fantasy_ranked = <<>>
    /\ exported = <<>>
    /\ rpc = "normalize"
    /\ AuthOff

\* nba_analysis.py:51-61
Normalize ==
    /\ rpc = "normalize"
    /\ df' =[i \in 1..Len(rawdf) |-> NormalizeRow(rawdf[i])]
    /\ rpc' = "zscores"
    /\ UNCHANGED <<auth_vars, ingest_vars, flat_vars, rawdf, df_fantasy, df_fantasy_ranked, exported>>

\* nba_analysis.py:193-211
ZScores ==
    /\ rpc = "zscores"
    /\ df_fantasy' = WithZScores(df)
    /\ rpc' = "rank"
    /\ UNCHANGED <<auth_vars, ingest_vars, flat_vars, rawdf, df, df_fantasy_ranked, exported>>

\* nba_analysis.py:214-217
RankPlayers ==
    /\ rpc = "rank"
    /\ \E order \in OrdersOf(Scored(df_fantasy)) :
         /\ SortedByScore(df_fantasy, order)
         /\ df_fantasy_ranked' =
              [k \in 1..Len(order) |->
                  [rank |-> k,
                   key |-> df_fantasy[order[k]].key,
                   cats |-> df_fantasy[order[k]].cats,
                   Z |-> df_fantasy[order[k]].Z,
                   Fantasy_Score |-> df_fantasy[order[k]].Fantasy_Score]]
    /\ rpc' = "export"
    /\ UNCHANGED <<auth_vars, ingest_vars, flat_vars, rawdf, df, df_fantasy, exported>>

\* nba_analysis.py:220-224: rank, the identity columns (key stands for
\* them), Fantasy_Score and the nine category values of the first 150 rows
Export ==
    /\ rpc = "export"
    /\ exported' =
         [k \in 1..Min(TopN, Len(df_fantasy_ranked)) |->
             [rank |-> df_fantasy_ranked[k].rank,
              key |-> df_fantasy_ranked[k].key,
              Fantasy_Score |-> df_fantasy_ranked[k].Fantasy_Score,
              cats |-> df_fantasy_ranked[k].cats]]
    /\ rpc' = "done"
    /\ UNCHANGED <<auth_vars, ingest_vars, flat_vars, rawdf, df, df_fantasy, df_fantasy_ranked>>

NextRank ==
    \/ Normalize
    \/ ZScores
    \/ RankPlayers
    \/ Export

SpecRank == InitRank /\ [][NextRank]_vars

(***************************************************************************)
(* SpecAuth: the token store and the session of YahooAPI (api_handler.py)  *)
(* over any number of runs that share yahoo_token.json.  The authorization *)
(* server answers fetch_token and the refresh exchange with a grant: a     *)
(* rejection, or a token with a fresh access token, an expiry, and a       *)
(* refresh token or none.                                                  *)
(***************************************************************************)
MaxClock == 3           \* ticks of time.time()
MaxIssued == 2          \* tokens the server issues
MaxExpiresIn == 2       \* largest expires_in the server grants

TokenKeys == <<"access_token", "refresh_token", "expires_at">>

\* json.dump of the value of key k: expires_at is a number, written in
\* decimal; the other values are strings.
JsonValue(k, v) ==
    IF k = "expires_at" THEN [t |-> "number", s |-> ToString(v)]
    ELSE [t |-> "string", s |-> v]

RECURSIVE JsonMembers(_, _)
\* json.dump(token, f): one member per key the token has.
JsonMembers(keys, token) ==
    IF keys = <<>> THEN <<>>
    ELSE IF Head(keys) \in DOMAIN token
    THEN <<[key |-> Head(keys), value |-> JsonValue(Head(keys), token[Head(keys)])]>>
             \o JsonMembers(Tail(keys), token)
    ELSE JsonMembers(Tail(keys), token)

\* api_handler.py:20-22
SaveToken(token) ==
    [exists |-> TRUE, json |-> TRUE, members |-> JsonMembers(TokenKeys, token)]

Numbers == 0..(MaxClock + MaxExpiresIn)

\* json.load of a number
ParseNumber(s) == CHOOSE n \in Numbers : ToString(n) = s

JsonParse(v) == IF v.t = "number" THEN ParseNumber(v.s) ELSE v.s

RECURSIVE JsonObject(_, _)
\* json.load of an object
JsonObject(members, d) ==
    IF members = <<>> THEN d
    ELSE JsonObject(Tail(members),
                    Put(d, Head(members).key, JsonParse(Head(members).value)))

\* api_handler.py:24-29: None when the file is missing; a text that is not
\* JSON raises (only FileNotFoundError is caught).
LoadToken(file) ==
    [raised |-> file.exists /\ ~file.json,
     none |-> ~file.exists,
     token |-> IF file.exists /\ file.json
               THEN JsonObject(file.members, EmptyDict) ELSE EmptyDict]

\* api_handler.py:33, "if token:"
Truthy(loaded) == ~loaded.none /\ loaded.token # EmptyDict

\* api_handler.py:34-43
LoadedSession(token) ==
    [kind |-> "loaded", token |-> token,
     auto_refresh_url |-> TRUE, token_updater |-> TRUE]

\* api_handler.py:46-48 and 54: the session fetch_token gave the token to
AuthorizedSession(token) ==
    [kind |-> "interactive", token |-> token,
     auto_refresh_url |-> FALSE, token_updater |-> FALSE]

NoGrant == [ok |-> FALSE, token |-> EmptyDict]

\* The answers of the server to its n-th grant at time t.
Grants(n, t) ==
    {NoGrant}
        \cup {[ok |-> TRUE,
               token |-> [access_token |-> "A" \o ToString(n),
                          refresh_token |-> "R" \o ToString(n),
                          expires_at |-> t + e]] : e \in 1..MaxExpiresIn}
        \cup {[ok |-> TRUE,
               token |-> [access_token |-> "A" \o ToString(n),
                          expires_at |-> t + 1]]}

\* A _get_session that returns the authorized session without saving.
GetSessionNoSave(file, grant) ==
    LET loaded == LoadToken(file) IN
    IF loaded.raised
    THEN [raised |-> TRUE, session |-> NoSession, file |-> file,
          granted |-> FALSE, events |-> <<"load">>]
    ELSE IF Truthy(loaded)
    THEN [raised |-> FALSE, session |-> LoadedSession(loaded.token), file |-> file,
          granted |-> FALSE, events |-> <<"load", "return">>]
    ELSE IF ~grant.ok
    THEN [raised |-> TRUE, session |-> NoSession, file |-> file,
          granted |-> FALSE, events |-> <<"load", "fetch_token">>]
    ELSE [raised |-> FALSE, session |-> AuthorizedSession(grant.token),
          file |-> file,
          granted |-> TRUE, events |-> <<"load", "fetch_token", "return">>]

\* api_handler.py:31-60.  events lists the calls in the order of the code.
GetSession(file, grant) ==
    LET loaded == LoadToken(file) IN
    IF loaded.raised
    THEN [raised |-> TRUE, session |-> NoSession, file |-> file,
          granted |-> FALSE, events |-> <<"load">>]
    ELSE IF Truthy(loaded)
    THEN [raised |-> FALSE, session |-> LoadedSession(loaded.token), file |-> file,
          granted |-> FALSE, events |-> <<"load", "return">>]
    ELSE IF ~grant.ok
    THEN [raised |-> TRUE, session |-> NoSession, file |-> file,
          granted |-> FALSE, events |-> <<"load", "fetch_token">>]
    ELSE [raised |-> FALSE, session |-> AuthorizedSession(grant.token),
          file |-> SaveToken(grant.token),
          granted |-> TRUE, events |-> <<"load", "fetch_token", "save", "return">>]

\* The session's test before it signs a request: the token has an expiry
\* that is set and past.
Expired(token, t) ==
    /\ "expires_at" \in DOMAIN token
    /\ token["expires_at"] # 0
    /\ token["expires_at"] < t

\* The token of the session after a refresh: the one granted, with the old
\* refresh token when the grant carries none.
Refreshed(old, new) ==
    IF "refresh_token" \in DOMAIN new THEN new
    ELSE Put(new, "refresh_token", old["refresh_token"])

\* api_handler.py:63, self.session.get(...), for the session built at
\* api_handler.py:34-43 or 46-48.  An expired token is refreshed only by a
\* session that has an auto_refresh_url, and the refreshed token goes to
\* the token_updater (_save_token); a session without auto_refresh_url
\* raises and keeps its token.  status is the HTTP outcome of the request.
SessionGet(sess, file, t, grant, status) ==
    IF ~Expired(sess.token, t)
    THEN [session |-> sess, file |-> file, granted |-> FALSE,
          result |-> status, events |-> <<>>]
    ELSE IF ~sess.auto_refresh_url
    THEN [session |-> sess, file |-> file, granted |-> FALSE,
          result |-> "token_expired", events |-> <<>>]
    ELSE IF ~grant.ok \/ "refresh_token" \notin DOMAIN sess.token
    THEN [session |-> sess, file |-> file, granted |-> FALSE,
          result |-> "refresh_rejected", events |-> <<>>]
    ELSE LET token == Refreshed(sess.token, grant.token) IN
         IF sess.token_updater
         THEN [session |-> [sess EXCEPT !.token = token],
               file |-> SaveToken(token), granted |-> TRUE,
               result |-> status, events |-> <<"refresh", "save">>]
         ELSE [session |-> [sess EXCEPT !.token = token],
               file |-> file, granted |-> TRUE,
               result |-> "token_updated", events |-> <<"refresh">>]

\* yahoo_token.json before the first run: missing, not JSON, the empty
\* object, or the token an earlier run saved.
InitFiles ==
    {NoFile,
     [exists |-> TRUE, json |-> FALSE, members |-> <<>>],
     [exists |-> TRUE, json |-> TRUE, members |-> <<>>]}
        \cup {SaveToken(g.token) : g \in Grants(0, 0) \ {NoGrant}}

InitAuth ==
    /\ pc = "done"
    /\ game_id = None
    /\ league_id = None
    /\ stat_map = None
    /\ start = 0
    /\ all_players_data = <<>>
    /\ players_data = None
    /\ stopped = "no"
    /\ requests = <<>>
    /\ served = <<>>
    /\ cats_resp = NoResponse
    /\ csv = NoCsv
    /\ flat_settings = NoResponse
    /\ flat_entry = MkEntry("missing_key", "0", <<>>)
    /\ flat_map = EmptyDict
    /\ player_info = [raised |-> FALSE, info |-> EmptyDict]
    /\ fpc = "off"
    /\ rawdf = <<>>
    /\ df = <<>>
    /\ df_fantasy = <<>>
    /\ df_fantasy_ranked = <<>>
    /\ exported = <<>>
    /\ rpc = "off"
    /\ token_file \in InitFiles
    /\ session = NoSession
    /\ apc = "start"
    /\ now = 0
    /\ issued = 0
    /\ events = <<>>
    /\ last = "none"

\* api_handler.py:10-18: YahooAPI(), at the start of a run (main.py:107).
\* An exception of _get_session leaves the run without an api object.
Construct ==
    /\ apc \in {"start", "ready", "failed"}
    /\ \E grant \in Grants(issued + 1, now) :
         LET r == GetSession(token_file, grant) IN
         /\ r.granted => issued < MaxIssued
         /\ session' = r.session
         /\ token_file' = r.file
         /\ apc' = IF r.raised THEN "failed" ELSE "ready"
         /\ issued' = IF r.granted THEN issued + 1 ELSE issued
         /\ events' = r.events
    /\ last' = "none"
    /\ UNCHANGED <<ingest_vars, flat_vars, rank_vars, now>>

\* api_handler.py:62-65
ApiGet ==
    /\ apc = "ready"
    /\ \E grant \in Grants(issued + 1, now), status \in {"ok", "http_error"} :
         LET r == SessionGet(session, token_file, now, grant, status) IN
         /\ r.granted => issued < MaxIssued
         /\ session' = r.session
         /\ token_file' = r.file
         /\ issued' = IF r.granted THEN issued + 1 ELSE issued
         /\ events' = events \o r.events
         /\ last' = r.result
    /\ UNCHANGED <<ingest_vars, flat_vars, rank_vars, apc, now>>

\* time.time() advances between calls.
Tick ==
    /\ apc \in {"start", "ready", "failed"}
    /\ now < MaxClock
    /\ now' = now + 1
    /\ UNCHANGED <<ingest_vars, flat_vars, rank_vars,
                   token_file, session, apc, issued, events, last>>

NextAuth ==
    \/ Construct
    \/ ApiGet
    \/ Tick

SpecAuth == InitAuth /\ [][NextAuth]_vars

(***************************************************************************)
(* Properties of a run of main (Spec).                                     *)
(***************************************************************************)
Last(s) == s[Len(s)]

LoopStopped == stopped # "no"

\* Every response so far is a players page (api.get did not raise and the
\* body has the players structure).
OnlyPagesServed == \A i \in 1..Len(served) : served[i].kind \in {"page", "emptylist"}

RECURSIVE RecordsOfEntries(_, _)
RecordsOfEntries(players, map) ==
    IF players = <<>> THEN <<>>
    ELSE <<FlattenEntry(Head(players), map).info>>
             \o RecordsOfEntries(Tail(players), map)

RECURSIVE RecordsOfPages(_, _)
\* The records of all entries of the given pages, in page and entry order.
RecordsOfPages(pages, map) ==
    IF pages = <<>> THEN <<>>
    ELSE RecordsOfEntries(Head(pages).players, map)
             \o RecordsOfPages(Tail(pages), map)

\* C1: over every sequence of served pages, the while loop of
\* get_all_player_data stops at the first page that reports zero players
\* and at no earlier point.
C1_StopsExactlyAtEmptyPage ==
    /\ \A i \in 1..Len(served) :
         IsEmptyPage(served[i]) => i = Len(served) /\ stopped = "empty"
    /\ (LoopStopped /\ OnlyPagesServed) => IsEmptyPage(Last(served))

\* C2: once api.get raised for a page, that request is the last one issued,
\* the loop has stopped, and what get_all_player_data returns is exactly the
\* records of the pages fetched before the failure, in order.
C2_FailureKeepsAccumulated ==
    \A i \in 1..Len(served) :
        served[i].kind = "raise" =>
            /\ i = Len(served)
            /\ Len(requests) = i
            /\ stopped = "error"
            /\ players_data = RecordsOfPages(SubSeq(served, 1, i - 1), stat_map)
            /\ all_players_data = players_data

C2_Witness ==
    /\ Len(served) = 3
    /\ Last(served).kind = "raise"
    /\ pc = "done"
    /\ Len(players_data) = 2 * MaxPageCount
    /\ csv.written

\* What get_all_player_data returns from the current offset and accumulation
\* when the page requested there reports zero players.
ReturnAtExhaustion ==
    PageStep(start, all_players_data, Bare("emptylist"), stat_map).acc

\* C3: the value get_all_player_data returns after a failed page fetch that
\* left players accumulated differs from the value it returns when the same
\* request reaches the empty page, so the caller can tell a partial run
\* from a complete one.
C3_PartialRunReported ==
    (stopped = "error" /\ Last(served).kind = "raise" /\ players_data # <<>>)
        => players_data # ReturnAtExhaustion

\* C4: every well-formed entry of every page fetched is emitted, also when
\* an earlier entry of the page is malformed.
C4_MalformedEntrySkipped ==
    \A p \in 1..Len(served) :
        served[p].kind = "page" =>
            \A i \in 1..served[p].count :
                WellFormed(served[p].players[i]) =>
                    FlattenEntry(served[p].players[i], stat_map).info
                        \in Range(all_players_data)

\* C5: a settings request that raises or lacks the nested structure yields
\* the empty map, and with an empty map main issues no page request and
\* writes no output file.
C5_NoCategoriesIsFatal ==
    cats_resp.kind # "none" =>
        /\ cats_resp.kind \in {"raise", "absent"} => stat_map = EmptyDict
        /\ stat_map = EmptyDict => requests = <<>> /\ ~csv.written /\ pc = "done"

C5_Witness ==
    /\ pc = "done"
    /\ cats_resp.kind = "absent"
    /\ stat_map = EmptyDict
    /\ league_id # None

\* The response is a page with players, all of which were flattened.
FullyProcessed(resp) ==
    /\ resp.kind = "page"
    /\ resp.count > 0
    /\ ~ProcessPage(resp.players, resp.count, 1, <<>>, stat_map).raised

\* The number of the first n responses that are fully processed pages.
ProcessedBefore(n) == Cardinality({j \in 1..n : FullyProcessed(served[j])})

IsPrefix(a, b) == Len(a) <= Len(b) /\ SubSeq(b, 1, Len(a)) = a

\* C12: each page request is answered before the next is issued; the i-th
\* request has offset 25 * (i - 1), which is 25 times the number of pages
\* with players fully flattened before it, so no offset is requested twice
\* or skipped; the next offset is 25 times the number of such pages so far;
\* and the accumulated records are a prefix of the records of the entries
\* of the pages served, in offset and entry order, no player twice.
C12_SequentialOffsets ==
    /\ count = 25
    /\ Len(served) = Len(requests)
    /\ \A i \in 1..Len(requests) :
         /\ requests[i] = 25 * (i - 1)
         /\ requests[i] = 25 * ProcessedBefore(i - 1)
    /\ start = 25 * ProcessedBefore(Len(served))
    /\ IsPrefix(all_players_data, RecordsOfPages(served, stat_map))
    /\ \A i, j \in 1..Len(all_players_data) :
         all_players_data[i]["player_key"] = all_players_data[j]["player_key"]
            => i = j

\* Two full pages, then a page whose second entry is malformed.
C12_Witness ==
    /\ requests = <<0, 25, 50>>
    /\ stopped = "error"
    /\ Last(served).kind = "page"
    /\ Last(served).count = 2
    /\ start = 50
    /\ Len(all_players_data) = 5
    /\ all_players_data[5]["player_key"] = "50"

(***************************************************************************)
(* Properties of the flattening (SpecFlatten).                             *)
(***************************************************************************)
\* The field name the specification gives stat item j of the entry drawn.
FieldNameOf(j) ==
    LET id == flat_entry.stats[j].stat_id IN
    IF id \in DOMAIN flat_map THEN flat_map[id] ELSE "stat_" \o id

Emitted == fpc = "done" /\ flat_entry.has_stats /\ ~player_info.raised

\* No stat id occurs twice in the entry drawn.
DistinctStatIds ==
    \A j, k \in 1..Len(flat_entry.stats) :
        flat_entry.stats[j].stat_id = flat_entry.stats[k].stat_id => j = k

\* C10 (as claimed): every stat item of an emitted entry is in the record
\* under its display name, or under stat_<id> when the map lacks its id,
\* with its original value.  Stated for the entries whose stat ids are
\* pairwise distinct, the ones a server sends.
C10_NoStatValueLost ==
    (Emitted /\ DistinctStatIds) =>
        \A j \in 1..Len(flat_entry.stats) :
            /\ FieldNameOf(j) \in DOMAIN player_info.info
            /\ player_info.info[FieldNameOf(j)] = flat_entry.stats[j].value

\* C10 (amended): every stat item's field name is in the record, and the
\* field holds the item's value unless a later item of the entry resolves
\* to the same field name, whose value then replaces it.
C10_LastStatPerNameKept ==
    Emitted =>
        \A j \in 1..Len(flat_entry.stats) :
            /\ FieldNameOf(j) \in DOMAIN player_info.info
            /\ (\A k \in (j + 1)..Len(flat_entry.stats) :
                    FieldNameOf(k) # FieldNameOf(j))
                 => player_info.info[FieldNameOf(j)] = flat_entry.stats[j].value

C10_Witness ==
    /\ Emitted
    /\ Len(flat_entry.stats) = 2
    /\ flat_entry.stats[1].stat_id \in DOMAIN flat_map
    /\ flat_entry.stats[2].stat_id \notin DOMAIN flat_map
    /\ FieldNameOf(1) # FieldNameOf(2)
    /\ player_info.info[FieldNameOf(2)] = flat_entry.stats[2].value

(***************************************************************************)
(* Properties of the analysis script (SpecRank).                           *)
(***************************************************************************)
Normalized == rpc \in {"zscores", "rank", "export", "done"}
Scoredz == rpc \in {"rank", "export", "done"}
Ranked == rpc \in {"export", "done"}

\* C6: the ranks are 1..N over the N normalized players, in the order of
\* Fantasy_Score descending, and players of equal Fantasy_Score are in the
\* order of their identifier ascending.
C6_RankBijectionTieByKey ==
    Ranked =>
        /\ Len(df_fantasy_ranked) = Len(df)
        /\ \A k \in 1..Len(df_fantasy_ranked) : df_fantasy_ranked[k].rank = k
        /\ \A a, b \in 1..Len(df_fantasy_ranked) :
             a < b =>
                \/ df_fantasy_ranked[a].Fantasy_Score.v > df_fantasy_ranked[b].Fantasy_Score.v
                \/ /\ df_fantasy_ranked[a].Fantasy_Score.v = df_fantasy_ranked[b].Fantasy_Score.v
                   /\ df_fantasy_ranked[a].key < df_fantasy_ranked[b].key

\* C7: in a category in which all players have the same value, every
\* player's z-score is exactly 0, for a population of any size N >= 1.
C7_ZeroVarianceZScoreZero ==
    Scoredz =>
        \A cat \in Range(fantasy_categories) :
            (\A i, j \in 1..Len(df_fantasy) :
                 df_fantasy[i].cats[cat] = df_fantasy[j].cats[cat])
              => \A i \in 1..Len(df_fantasy) : df_fantasy[i].Z[cat] = Val(0)

\* C8 (as claimed): after normalization, for every raw value, a percentage
\* field is NA or an integer in 0..100 and a count field is a non-negative
\* integer.
C8_NormalizedRecordInvariant ==
    Normalized =>
        \A i \in 1..Len(df) :
            \A col \in Range(numeric_cols) :
                IF col \in PctCols
                THEN df[i].vals[col].na
                       \/ (0 <= df[i].vals[col].v /\ df[i].vals[col].v <= 100)
                ELSE ~df[i].vals[col].na /\ df[i].vals[col].v >= 0

\* The raw cell a numeric column of row i is normalized from.
RawOf(i, col) == WithFractions(rawdf[i].cells)[col]

\* C8 (amended): after normalization a count field is never NA, and it is
\* non-negative when its raw value is missing, unparsable or a non-negative
\* number; a percentage field is NA or an integer, in 0..100 when its raw
\* value is missing, unparsable or a number in [0, 1].
C8_NormalizedInRangeForValidRaw ==
    Normalized =>
        \A i \in 1..Len(df) :
            \A col \in Range(numeric_cols) :
                IF col \in PctCols
                THEN (RawOf(i, col).t = "num" =>
                          (0 <= RawOf(i, col).v /\ RawOf(i, col).v <= 1000))
                       => df[i].vals[col].na
                            \/ (0 <= df[i].vals[col].v /\ df[i].vals[col].v <= 100)
                ELSE /\ ~df[i].vals[col].na
                     /\ (RawOf(i, col).t = "num" => RawOf(i, col).v >= 0)
                          => df[i].vals[col].v >= 0

C8_Witness ==
    /\ Normalized
    /\ Len(rawdf) = 2
    /\ rawdf[1].cells["PTS"] = NumCell(12700)
    /\ df[1].vals["PTS"] = Val(12)
    /\ df[1].vals["FG%"] = Val(45)
    /\ df[1].vals["FGA"] = Val(20)
    /\ rawdf[2].cells["FG%"] = NumCell(445)
    /\ df[2].vals["FG%"] = Val(44)

\* The raw cell is missing or does not parse as a number.
NoNumber(c) == c.t # "num"

CountCategories == Range(fantasy_categories) \ PctCols

\* The exported row of the player with the given key.
ExportedOf(key) == CHOOSE r \in Range(exported) : r.key = key

\* A count field whose source is missing or unparsable is 0, in df and in
\* the ranking's table.
CountsDefaultToZero ==
    \A i \in 1..Len(rawdf) :
        /\ \A col \in CountCategories :
             NoNumber(rawdf[i].cells[col]) =>
                /\ Normalized => df[i].vals[col] = Val(0)
                /\ Scoredz => df_fantasy[i].cats[col] = Val(0)
        /\ (Normalized /\ rawdf[i].cells["FGM/A"].t # "frac")
             => df[i].vals["FGM"] = Val(0) /\ df[i].vals["FGA"] = Val(0)

\* C9 (as claimed): a percentage field whose source is missing or
\* unparsable is null after normalization and stays null in the category
\* values the ranking uses and exports; such a count field is 0.
C9_NullPctStaysNull ==
    /\ CountsDefaultToZero
    /\ \A i \in 1..Len(rawdf) :
         \A col \in PctCols :
            NoNumber(rawdf[i].cells[col]) =>
                /\ Normalized => df[i].vals[col] = NA
                /\ Scoredz => df_fantasy[i].cats[col] = NA
                /\ rpc = "done" => ExportedOf(rawdf[i].key).cats[col] = NA

\* C9 (amended): such a percentage field is null in the normalized table
\* df, and 0 in the category values the ranking uses and exports; such a
\* count field is 0.
C9_NullPctInDfZeroInRanking ==
    /\ CountsDefaultToZero
    /\ \A i \in 1..Len(rawdf) :
         \A col \in PctCols :
            NoNumber(rawdf[i].cells[col]) =>
                /\ Normalized => df[i].vals[col] = NA
                /\ Scoredz => df_fantasy[i].cats[col] = Val(0)
                /\ rpc = "done" => ExportedOf(rawdf[i].key).cats[col] = Val(0)

C9_Witness ==
    /\ rpc = "done"
    /\ Len(rawdf) = 2
    /\ rawdf[1].cells["FG%"] = StrCell
    /\ rawdf[2].cells["PTS"] = NaNCell
    /\ df[1].vals["FG%"] = NA
    /\ ExportedOf(rawdf[1].key).cats["FG%"] = Val(0)
    /\ ExportedOf(rawdf[2].key).cats["PTS"] = Val(0)

(***************************************************************************)
(* Properties of the token store (SpecAuth).                               *)
(***************************************************************************)
\* The token a run reads back from yahoo_token.json.
StoredToken == LoadToken(token_file).token

\* Every fetch_token and every refresh in the history of a usable session
\* is followed at once by the save.
SavedAtOnce ==
    \A i \in 1..Len(events) :
        events[i] \in {"fetch_token", "refresh"} =>
            i < Len(events) /\ events[i + 1] = "save"

\* C11: whenever YahooAPI holds a session, after any sequence of
\* constructions, authorizations, refreshes and requests, yahoo_token.json
\* holds the token the session is using; every acquisition and refresh is
\* followed by the save, and on the interactive path the save precedes the
\* return of _get_session.
C11_StoreHoldsSessionToken ==
    apc = "ready" =>
        /\ token_file.exists /\ token_file.json
        /\ StoredToken = session.token
        /\ SavedAtOnce
        /\ session.kind = "interactive" =>
              \E i, j \in 1..Len(events) :
                  i < j /\ events[i] = "save" /\ events[j] = "return"

\* A run authorized interactively, then a later run that loaded the saved
\* token, found it expired at a request and refreshed it.
C11_Witness ==
    /\ apc = "ready"
    /\ session.kind = "loaded"
    /\ issued = 2
    /\ events = <<"load", "return", "refresh", "save">>
    /\ last = "ok"
    /\ session.token["access_token"] = "A2"
    /\ session.token["refresh_token"] = "R1"
    /\ StoredToken = session.token

====
